---- MODULE Spec2Model ----
\* Model of src/shader.js: a WebGL full-screen background renderer.
\* Host side: the page's three entry points (window.onload = initShader,
\* window.onresize = resizeCanvas, the requestAnimationFrame callback render)
\* run to completion on the single event-loop thread, so each is one action.
\* GPU side: the "thin line" term of the fragment shader, in fixed point.
EXTENDS Integers, Sequences, FiniteSets, TLC

\* ---------------------------------------------------------------- bounds
\* Viewport widths and heights range over 0..MaxDim (CSS pixels).
MaxDim == 2
\* Date.now() ranges over 0..MaxTime (milliseconds).
MaxTime == 2
\* The script is evaluated (startTime is read) at a time in 0..MaxStart.
MaxStart == 0
\* Draw calls are counted modulo FrameWrap, so that the loop never has to stop.
FrameWrap == 3
\* Fragment inputs uv.x and wave range over -MaxCoord..MaxCoord (units of 0.001).
MaxCoord == 6

\* ------------------------------------------------------ program constants
\* smoothstep(0.003, 0.008, ...): the edges in units of 0.001.
Edge0 == 3
Edge1 == 8
\* (Date.now()-startTime)/1000
MsPerSecond == 1000
\* gl.drawArrays(gl.TRIANGLES,0,6)
DrawFirst == 0
DrawCount == 6

Dims == 0..MaxDim
InfoLogs == {"ERROR: 0:1: syntax error", "ERROR: 0:17: undeclared identifier"}

\* The 6 two-component vertices uploaded by gl.bufferData.
QuadVertices == <<-1,-1, 1,-1, -1,1, -1,1, 1,-1, 1,1>>

VARIABLES
  innerWidth, innerHeight,   \* window.innerWidth / window.innerHeight
  now,                       \* the value Date.now() returns
  startTime,                 \* let startTime = Date.now()
  loaded,                    \* the load event has been dispatched
  canvas,                    \* "undefined" | "element"
  canvasWidth, canvasHeight, \* width/height of the #shaderCanvas element
  gl,                        \* "undefined" | "null" | "context"
  program,                   \* "undefined" | "program"
  glState,                   \* the context's state: shaders, link status, buffer, attribute
  glViewport,                \* <<x, y, w, h>> of the last gl.viewport call, or <<>>
  uResolution,               \* value of uniform iResolution, or <<>> while unset
  uTime,                     \* value of uniform iTime (a rational <<num, den>>), or <<>>
  lastDraw,                  \* arguments of the last gl.drawArrays call, or <<>>
  frameNo,                   \* number of executions of render, modulo FrameWrap
  rafPending,                \* callbacks registered by requestAnimationFrame, not yet run
  console,                   \* sequence of console.log / console.error records
  uncaught,                  \* uncaught exceptions, by the line that threw
  created,                   \* [programs |-> n, buffers |-> n]: createProgram/createBuffer calls
  lastEvent,                 \* the handler the event loop ran last, and how it ended
  uvx, wave, line            \* fragment shader: uv.x, wave, and the line term

fragVars == <<uvx, wave, line>>
vars == <<innerWidth, innerHeight, now, startTime, loaded, canvas, canvasWidth,
          canvasHeight, gl, program, glState, glViewport, uResolution, uTime,
          lastDraw, frameNo, rafPending, console, uncaught, created, lastEvent,
          uvx, wave, line>>

NoGlState == [vsCompiled |-> FALSE, fsCompiled |-> FALSE,
              vsInfoLog |-> "", fsInfoLog |-> "", linked |-> FALSE,
              currentProgram |-> "none", bufferData |-> <<>>, attrib |-> <<>>,
              errors |-> {}]

\* ------------------------------------------------------------- rationals
\* A rational is <<numerator, denominator>> with denominator > 0.
RatLeq(a, b) == a[1] * b[2] <= b[1] * a[2]
RatEq(a, b) == a[1] * b[2] = b[1] * a[2]

Abs(x) == IF x < 0 THEN -x ELSE x
Clamp(x, lo, hi) == IF x < lo THEN lo ELSE IF x > hi THEN hi ELSE x

\* ------------------------------------------------------- fragment shader
\* GLSL smoothstep(edge0, edge1, x): t = clamp((x-edge0)/(edge1-edge0), 0, 1);
\* t*t*(3 - 2*t).  With x, edge0, edge1 integers (units of 0.001), t = tn/den.
smoothstep(edge0, edge1, x) ==
  LET den == edge1 - edge0
      tn  == Clamp(x - edge0, 0, den)
  IN  <<tn * tn * (3 * den - 2 * tn), den * den * den>>

\* float line = 1.0 - smoothstep(0.003, 0.008, abs(uv.x - wave));
MutLineTerm(x, w) ==
  smoothstep(Edge0, Edge1, Abs(x - w))
LineTerm(x, w) ==
  LET s == smoothstep(Edge0, Edge1, Abs(x - w))
  IN  <<s[2] - s[1], s[2]>>

\* ------------------------------------------------------------ host side
\* let time = (Date.now()-startTime)/1000;   as the rational <<ms, 1000>>
elapsedTime(nowMs, t0) == <<nowMs - t0, MsPerSecond>>

\* function resizeCanvas(): reads the globals canvas (cv) and gl (g) and the
\* window size (w, h); cw, ch, vp are the element's size and the viewport
\* before the call.  threw names the line whose member access raised a
\* TypeError (canvas undefined at line 87, gl null at line 89), or "none".
MutResizeCanvasSwapped(cv, g, w, h, cw, ch, vp) ==
  IF cv = "undefined"
    THEN [canvasWidth |-> cw, canvasHeight |-> ch, glViewport |-> vp,
          threw |-> "TypeError:87", scheduled |-> 0]
  ELSE IF g # "context"
    THEN [canvasWidth |-> w, canvasHeight |-> h, glViewport |-> vp,
          threw |-> "TypeError:89", scheduled |-> 0]
  ELSE [canvasWidth |-> w, canvasHeight |-> h, glViewport |-> <<0, 0, h, w>>,
        threw |-> "none", scheduled |-> 0]
MutResizeCanvasRenders(cv, g, w, h, cw, ch, vp) ==
  IF cv = "undefined"
    THEN [canvasWidth |-> cw, canvasHeight |-> ch, glViewport |-> vp,
          threw |-> "TypeError:87", scheduled |-> 0]
  ELSE IF g # "context"
    THEN [canvasWidth |-> w, canvasHeight |-> h, glViewport |-> vp,
          threw |-> "TypeError:89", scheduled |-> 0]
  ELSE [canvasWidth |-> w, canvasHeight |-> h, glViewport |-> <<0, 0, w, h>>,
        threw |-> "none", scheduled |-> 1]
resizeCanvas(cv, g, w, h, cw, ch, vp) ==
  IF cv = "undefined"
    THEN [canvasWidth |-> cw, canvasHeight |-> ch, glViewport |-> vp,
          threw |-> "TypeError:87", scheduled |-> 0]
  ELSE IF g # "context"
    THEN [canvasWidth |-> w, canvasHeight |-> h, glViewport |-> vp,
          threw |-> "TypeError:89", scheduled |-> 0]
  ELSE [canvasWidth |-> w, canvasHeight |-> h, glViewport |-> <<0, 0, w, h>>,
        threw |-> "none", scheduled |-> 0]

\* function render(), called with gl a context.  With the program linked and in
\* use the two uniforms are written; otherwise getUniformLocation returns null
\* (INVALID_OPERATION), uniform2f/uniform1f on a null location do nothing and
\* drawArrays is rejected (INVALID_OPERATION).  In both cases the draw call is
\* issued and requestAnimationFrame(render) registers one callback.
MutRenderStaleResolution(st, nowMs, t0, cw, ch, ures, utime) ==
  [uResolution |-> IF st.linked /\ ures = <<>> THEN <<cw, ch>> ELSE ures,
   uTime       |-> IF st.linked THEN elapsedTime(nowMs, t0) ELSE utime,
   lastDraw    |-> <<"TRIANGLES", DrawFirst, DrawCount>>,
   errors      |-> IF st.linked THEN st.errors
                   ELSE st.errors \cup {"INVALID_OPERATION"},
   scheduled   |-> 1]
MutRenderNoReschedule(st, nowMs, t0, cw, ch, ures, utime) ==
  [uResolution |-> IF st.linked THEN <<cw, ch>> ELSE ures,
   uTime       |-> IF st.linked THEN elapsedTime(nowMs, t0) ELSE utime,
   lastDraw    |-> <<"TRIANGLES", DrawFirst, DrawCount>>,
   errors      |-> IF st.linked THEN st.errors
                   ELSE st.errors \cup {"INVALID_OPERATION"},
   scheduled   |-> IF ures = <<>> THEN 1 ELSE 0]
render(st, nowMs, t0, cw, ch, ures, utime) ==
  [uResolution |-> IF st.linked THEN <<cw, ch>> ELSE ures,
   uTime       |-> IF st.linked THEN elapsedTime(nowMs, t0) ELSE utime,
   lastDraw    |-> <<"TRIANGLES", DrawFirst, DrawCount>>,
   errors      |-> IF st.linked THEN st.errors
                   ELSE st.errors \cup {"INVALID_OPERATION"},
   scheduled   |-> 1]

\* initShader lines 51-80: compile both stages, log each failure with the
\* stage's info log, then create, attach, link and activate the program and
\* upload the quad whatever the compile status was.
MutCompileLogWrongStage(vsOk, fsOk, vsLog, fsLog) ==
  (IF vsOk THEN <<>> ELSE << <<"error", "Vertex shader error:", vsLog>> >>)
  \o (IF fsOk THEN <<>> ELSE << <<"error", "Fragment shader error:", vsLog>> >>)
compileLog(vsOk, fsOk, vsLog, fsLog) ==
  (IF vsOk THEN <<>> ELSE << <<"error", "Vertex shader error:", vsLog>> >>)
  \o (IF fsOk THEN <<>> ELSE << <<"error", "Fragment shader error:", fsLog>> >>)

setupProgram(vsOk, fsOk, linkOk, vsLog, fsLog) ==
  LET linked == vsOk /\ fsOk /\ linkOk
  IN  [vsCompiled |-> vsOk, fsCompiled |-> fsOk,
       vsInfoLog |-> IF vsOk THEN "" ELSE vsLog,
       fsInfoLog |-> IF fsOk THEN "" ELSE fsLog,
       linked |-> linked,
       currentProgram |-> IF linked THEN "program" ELSE "none",
       bufferData |-> QuadVertices,
       attrib |-> IF linked THEN <<0, 2, "FLOAT", FALSE, 0, 0>> ELSE <<>>,
       errors |-> IF linked THEN {} ELSE {"INVALID_OPERATION", "INVALID_VALUE"}]

\* ---------------------------------------------------------------- state
\* The state once the script has been evaluated: the three globals are
\* undefined, startTime holds Date.now(), both handlers are registered.
HostInit ==
  /\ innerWidth \in Dims /\ innerHeight \in Dims
  /\ now \in 0..MaxStart
  /\ startTime = now
  /\ loaded = FALSE
  /\ canvas = "undefined"
  /\ canvasWidth \in Dims /\ canvasHeight \in Dims
  /\ gl = "undefined"
  /\ program = "undefined"
  /\ glState = NoGlState
  /\ glViewport = <<>>
  /\ uResolution = <<>>
  /\ uTime = <<>>
  /\ lastDraw = <<>>
  /\ frameNo = 0
  /\ rafPending = 0
  /\ console = <<>>
  /\ uncaught = {}
  /\ created = [programs |-> 0, buffers |-> 0]
  /\ lastEvent = [handler |-> "none", threw |-> "none"]

FragIdle == uvx = 0 /\ wave = 0 /\ line = <<>>

Init == HostInit /\ FragIdle

\* --------------------------------------------------------------- actions
\* The value Date.now() returns changes.  Date.now() is the wall clock: it
\* normally advances, and it goes back when the system time is set back (by
\* the user or by clock synchronisation); the code reads it as it is.
Tick(t) ==
  /\ t # now
  /\ now' = t
  /\ UNCHANGED <<innerWidth, innerHeight, startTime, loaded, canvas, canvasWidth,
                 canvasHeight, gl, program, glState, glViewport, uResolution,
                 uTime, lastDraw, frameNo, rafPending, console, uncaught, created,
                 lastEvent>>
  /\ UNCHANGED fragVars

\* window.onload = initShader, with getContext returning null.
MutOnLoadNoContextRenders ==
  /\ ~loaded
  /\ loaded' = TRUE
  /\ canvas' = "element"
  /\ gl' = "null"
  /\ console' = Append(console, <<"log", "WebGL not supported">>)
  /\ lastEvent' = [handler |-> "load", threw |-> "none"]
  /\ rafPending' = rafPending + 1
  /\ UNCHANGED <<innerWidth, innerHeight, now, startTime, canvasWidth, canvasHeight,
                 program, glState, glViewport, uResolution, uTime, lastDraw,
                 frameNo, uncaught, created>>
  /\ UNCHANGED fragVars
OnLoadNoContext ==
  /\ ~loaded
  /\ loaded' = TRUE
  /\ canvas' = "element"
  /\ gl' = "null"
  /\ console' = Append(console, <<"log", "WebGL not supported">>)
  /\ lastEvent' = [handler |-> "load", threw |-> "none"]
  /\ UNCHANGED <<innerWidth, innerHeight, now, startTime, canvasWidth, canvasHeight,
                 program, glState, glViewport, uResolution, uTime, lastDraw,
                 frameNo, rafPending, uncaught, created>>
  /\ UNCHANGED fragVars

\* window.onload = initShader, with a context: lines 51-83, ending with the
\* calls resizeCanvas() and render().
OnLoad(vsOk, fsOk, linkOk, vsLog, fsLog) ==
  /\ ~loaded
  /\ loaded' = TRUE
  /\ canvas' = "element"
  /\ gl' = "context"
  /\ console' = console \o compileLog(vsOk, fsOk, vsLog, fsLog)
  /\ program' = "program"
  /\ lastEvent' = [handler |-> "load", threw |-> "none"]
  /\ created' = [programs |-> created.programs + 1, buffers |-> created.buffers + 1]
  /\ LET st == setupProgram(vsOk, fsOk, linkOk, vsLog, fsLog)
         rs == resizeCanvas("element", "context", innerWidth, innerHeight,
                            canvasWidth, canvasHeight, <<0, 0, canvasWidth, canvasHeight>>)
         rn == render(st, now, startTime, rs.canvasWidth, rs.canvasHeight,
                      uResolution, uTime)
     IN  /\ canvasWidth' = rs.canvasWidth
         /\ canvasHeight' = rs.canvasHeight
         /\ glViewport' = rs.glViewport
         /\ glState' = [st EXCEPT !.errors = rn.errors]
         /\ uResolution' = rn.uResolution
         /\ uTime' = rn.uTime
         /\ lastDraw' = rn.lastDraw
         /\ frameNo' = (frameNo + 1) % FrameWrap
         /\ rafPending' = rafPending + rs.scheduled + rn.scheduled
  /\ UNCHANGED <<innerWidth, innerHeight, now, startTime, uncaught>>
  /\ UNCHANGED fragVars

\* The viewport changes to (w, h) and the resize event is dispatched to
\* window.onresize = resizeCanvas.  An exception leaves the handler uncaught;
\* the assignments made before it stay.
OnResize(w, h) ==
  /\ innerWidth' = w
  /\ innerHeight' = h
  /\ LET rs == resizeCanvas(canvas, gl, w, h, canvasWidth, canvasHeight, glViewport)
     IN  /\ canvasWidth' = rs.canvasWidth
         /\ canvasHeight' = rs.canvasHeight
         /\ glViewport' = rs.glViewport
         /\ uncaught' = IF rs.threw = "none" THEN uncaught ELSE uncaught \cup {rs.threw}
         /\ rafPending' = rafPending + rs.scheduled
         /\ lastEvent' = [handler |-> "resize", threw |-> rs.threw]
  /\ UNCHANGED <<now, startTime, loaded, canvas, gl, program, glState, uResolution,
                 uTime, lastDraw, frameNo, console, created>>
  /\ UNCHANGED fragVars

\* The host runs one callback registered by requestAnimationFrame(render).
MutFrameCallbackRecreates ==
  /\ rafPending > 0
  /\ LET rn == render(glState, now, startTime, canvasWidth, canvasHeight,
                      uResolution, uTime)
     IN  /\ uResolution' = rn.uResolution
         /\ uTime' = rn.uTime
         /\ lastDraw' = rn.lastDraw
         /\ glState' = [glState EXCEPT !.errors = rn.errors]
         /\ frameNo' = (frameNo + 1) % FrameWrap
         /\ rafPending' = (rafPending - 1) + rn.scheduled
  /\ lastEvent' = [handler |-> "frame", threw |-> "none"]
  /\ created' = [created EXCEPT !.buffers = 2]
  /\ UNCHANGED <<innerWidth, innerHeight, now, startTime, loaded, canvas, canvasWidth,
                 canvasHeight, gl, program, glViewport, console, uncaught>>
  /\ UNCHANGED fragVars
FrameCallback ==
  /\ rafPending > 0
  /\ LET rn == render(glState, now, startTime, canvasWidth, canvasHeight,
                      uResolution, uTime)
     IN  /\ uResolution' = rn.uResolution
         /\ uTime' = rn.uTime
         /\ lastDraw' = rn.lastDraw
         /\ glState' = [glState EXCEPT !.errors = rn.errors]
         /\ frameNo' = (frameNo + 1) % FrameWrap
         /\ rafPending' = (rafPending - 1) + rn.scheduled
  /\ lastEvent' = [handler |-> "frame", threw |-> "none"]
  /\ UNCHANGED <<innerWidth, innerHeight, now, startTime, loaded, canvas, canvasWidth,
                 canvasHeight, gl, program, glViewport, console, uncaught, created>>
  /\ UNCHANGED fragVars

Next ==
  \/ \E t \in 0..MaxTime : Tick(t)
  \/ OnLoadNoContext
  \/ \E vsOk \in BOOLEAN, fsOk \in BOOLEAN, linkOk \in BOOLEAN,
        vsLog \in InfoLogs, fsLog \in InfoLogs :
        OnLoad(vsOk, fsOk, linkOk, vsLog, fsLog)
  \/ \E w \in Dims, h \in Dims : OnResize(w, h)
  \/ FrameCallback

Spec == Init /\ [][Next]_vars

\* The host delivers every registered frame callback.
FairSpec == Spec /\ WF_vars(FrameCallback)

\* The GPU evaluates the line term of one fragment for one loop iteration.
FragInit ==
  /\ HostInit
  /\ uvx \in (-MaxCoord)..MaxCoord
  /\ wave \in (-MaxCoord)..MaxCoord
  /\ line = <<>>

ShadeFragment ==
  /\ line = <<>>
  /\ line' = LineTerm(uvx, wave)
  /\ UNCHANGED <<innerWidth, innerHeight, now, startTime, loaded, canvas, canvasWidth,
                 canvasHeight, gl, program, glState, glViewport, uResolution, uTime,
                 lastDraw, frameNo, rafPending, console, uncaught, created, lastEvent,
                 uvx, wave>>

ShaderSpec == FragInit /\ [][ShadeFragment]_vars

\* ================================================================ claims
DrawCall == <<"TRIANGLES", DrawFirst, DrawCount>>
ResizeStep == \E w \in Dims, h \in Dims : OnResize(w, h)
RenderStep == frameNo' # frameNo

\* C1: for every viewport size (w,h) with w > 0 and h > 0, once resizeCanvas has
\* handled a resize event the canvas is w by h and the viewport set by the call
\* is the rectangle with origin (0,0), width w and height h.
C1_ResizeSetsCanvasAndViewport ==
  (/\ lastEvent = [handler |-> "resize", threw |-> "none"]
   /\ innerWidth > 0 /\ innerHeight > 0)
  => /\ canvasWidth = innerWidth
     /\ canvasHeight = innerHeight
     /\ glViewport = <<0, 0, innerWidth, innerHeight>>

C1_Witness ==
  /\ lastEvent = [handler |-> "resize", threw |-> "none"]
  /\ innerWidth = 1 /\ innerHeight = 2
  /\ glViewport = <<0, 0, 1, 2>>

\* C2: with startTime fixed, no frame uploads an iTime smaller than the iTime
\* uploaded by the frame before it.
C2_TimeNonDecreasing ==
  [][(uTime # <<>> /\ uTime' # <<>>) => RatLeq(uTime, uTime')]_vars

\* C3: when getContext returns null, initShader logs the failure and does
\* nothing else: no shader, program or buffer exists, resizeCanvas and render
\* were not called by it, and in every later state no draw call has been issued
\* and no frame callback is or was scheduled.
C3_NoContextAborts ==
  gl = "null"
  => /\ console = << <<"log", "WebGL not supported">> >>
     /\ program = "undefined"
     /\ created = [programs |-> 0, buffers |-> 0]
     /\ glState = NoGlState
     /\ glViewport = <<>>
     /\ uResolution = <<>> /\ uTime = <<>>
     /\ lastDraw = <<>>
     /\ frameNo = 0
     /\ rafPending = 0

C3_Witness ==
  /\ gl = "null"
  /\ lastEvent.handler = "resize"
  /\ now > startTime

\* C4: when a stage fails to compile, a diagnostic carrying that stage's info
\* log is logged and setup goes on: the program is created, the quad uploaded,
\* the canvas resized, the first frame rendered and the next one scheduled.
HasLogged(label, text) ==
  \E i \in 1..Len(console) : console[i] = <<"error", label, text>>

C4_CompileFailureLoggedNoAbort ==
  (gl = "context" /\ (~glState.vsCompiled \/ ~glState.fsCompiled))
  => /\ ~glState.vsCompiled => HasLogged("Vertex shader error:", glState.vsInfoLog)
     /\ ~glState.fsCompiled => HasLogged("Fragment shader error:", glState.fsInfoLog)
     /\ program = "program"
     /\ created = [programs |-> 1, buffers |-> 1]
     /\ glState.bufferData = QuadVertices
     /\ glViewport # <<>>
     /\ lastDraw = DrawCall
     /\ rafPending >= 1

C4_Witness ==
  /\ gl = "context"
  /\ glState.vsCompiled /\ ~glState.fsCompiled
  /\ HasLogged("Fragment shader error:", "ERROR: 0:17: undeclared identifier")
  /\ lastEvent.handler = "load"
  /\ rafPending = 1

\* C5: every execution of render issues drawArrays(TRIANGLES, 0, 6) and
\* schedules render again, and once the loop has started, with frame callbacks
\* delivered fairly, frames keep being drawn for ever, whatever resize events
\* are interleaved.
C5_RenderLoopNeverStops ==
  /\ [][RenderStep => (lastDraw' = DrawCall /\ rafPending' >= 1)]_vars
  /\ \A k \in 0..(FrameWrap - 1) : (lastDraw # <<>>) ~> (frameNo = k)

C5_Witness ==
  /\ lastEvent.handler = "frame"
  /\ frameNo = 0
  /\ lastDraw = DrawCall
  /\ rafPending = 1
  /\ uResolution = <<1, 2>>

\* C6: resizeCanvas never raises an error, in whatever state the resize event
\* is delivered to it.
C6_ResizeNeverThrows ==
  lastEvent.handler = "resize" => lastEvent.threw = "none"

\* C7: the program and the buffer are created exactly once, both and the
\* initial resizeCanvas before render first executes, and no later step
\* creates, replaces or modifies either.
ProgramAndBuffer ==
  <<program, created, glState.vsCompiled, glState.fsCompiled, glState.linked,
    glState.currentProgram, glState.bufferData, glState.attrib>>

C7_CreatedOnceBeforeLoop ==
  /\ [](created.programs <= 1 /\ created.buffers <= 1)
  /\ [](lastDraw # <<>> => /\ created = [programs |-> 1, buffers |-> 1]
                           /\ program = "program"
                           /\ glState.bufferData = QuadVertices
                           /\ glViewport # <<>>)
  /\ [][loaded => ProgramAndBuffer' = ProgramAndBuffer]_vars

C7_Witness ==
  /\ lastEvent.handler = "frame"
  /\ frameNo = 2
  /\ created = [programs |-> 1, buffers |-> 1]
  /\ glState.bufferData = QuadVertices

\* C8: the line term 1 - smoothstep(0.003, 0.008, d), d = |uv.x - wave|, is 1
\* at d = 0.003 and 0 for every d >= 0.008.
C8_LineTermBoundaries ==
  line # <<>>
  => /\ Abs(uvx - wave) = Edge0 => RatEq(line, <<1, 1>>)
     /\ Abs(uvx - wave) >= Edge1 => RatEq(line, <<0, 1>>)
     /\ RatLeq(line, <<1, 1>>)

C8_Witness ==
  /\ line # <<>>
  /\ uvx - wave = -Edge1
  /\ line[1] = 0

\* C9: the iResolution a frame uploads is the canvas size at the moment the
\* frame runs, which is the size the most recent resizeCanvas set.
C9_ResolutionIsCurrentCanvasSize ==
  [][(RenderStep /\ glState'.linked)
     => /\ uResolution' = <<canvasWidth', canvasHeight'>>
        /\ uResolution' = <<innerWidth', innerHeight'>>]_vars

C9_Witness ==
  /\ lastEvent.handler = "frame"
  /\ frameNo = 2
  /\ uResolution = <<2, 1>>
  /\ glViewport = <<0, 0, 2, 1>>

\* C10: at most one frame callback is pending; every execution of render
\* leaves exactly one pending, and resizeCanvas neither schedules a frame nor
\* issues a draw call.
C10_AtMostOnePendingFrame ==
  /\ [](rafPending <= 1)
  /\ [][RenderStep => rafPending' = 1]_vars
  /\ [][ResizeStep => UNCHANGED <<rafPending, lastDraw, frameNo>>]_vars

C10_Witness ==
  /\ lastEvent = [handler |-> "resize", threw |-> "none"]
  /\ rafPending = 1
  /\ frameNo = 1

====
